---- MODULE Spec2Model ----
(***************************************************************************)
(* Lead qualification bot (src/app.py): a Streamlit script that is re-run  *)
(* from top to bottom on every user interaction.  The state is             *)
(* st.session_state (messages, lead_data, conversation_stage, analytics),  *)
(* the widgets the last run put on the page, and whether a run asked for   *)
(* an immediate re-run with st.rerun().  Each action is one script run,    *)
(* caused by one user interaction (a submitted text or a clicked button)   *)
(* or by st.rerun(); the user acts on a page only once its run has ended.  *)
(*                                                                         *)
(* Text is a sequence of one-character strings, so that the regular        *)
(* expressions of validate_response and the float()/int() conversions of   *)
(* qualify_lead are computed character by character.                       *)
(* Timestamps (datetime.now()) are not represented in the records.         *)
(***************************************************************************)
EXTENDS Integers, Sequences, FiniteSets, TLC

VARIABLES
    session_state,    \* st.session_state: a mapping from key to value
    widget_state,     \* the text input on the page: [key, value]
    rendered,         \* the widgets the last run rendered
    rerun_requested,  \* a run is due without user interaction (page load, st.rerun())
    category,         \* main's local `category` (line 240); "none" before it is computed
    call              \* a function applied on its own: its arguments, and its
                      \* value once it has returned

vars == <<session_state, widget_state, rendered, rerun_requested, category, call>>

----------------------------------------------------------------------------
(* Bounds *)

\* Script runs in the 'completed' stage are explored until lead_scores has
\* this many records.
MaxScores == 2

----------------------------------------------------------------------------
(* Text *)

Digits == {"0", "1", "2", "3", "4", "5", "6", "7", "8", "9"}

NonZeroDigits == Digits \ {"0"}

Letters ==
    {"a", "b", "c", "d", "e", "f", "g", "h", "i", "j", "k", "l", "m",
     "n", "o", "p", "q", "r", "s", "t", "u", "v", "w", "x", "y", "z",
     "A", "B", "C", "D", "E", "F", "G", "H", "I", "J", "K", "L", "M",
     "N", "O", "P", "Q", "R", "S", "T", "U", "V", "W", "X", "Y", "Z"}

\* [a-zA-Z0-9_.+-]
EmailLocalChars == Letters \cup Digits \cup {"_", ".", "+", "-"}

\* [a-zA-Z0-9-]
EmailDomainChars == Letters \cup Digits \cup {"-"}

\* [a-zA-Z0-9-.]
EmailTldChars == Letters \cup Digits \cup {"-", "."}

AllIn(s, chars) == \A i \in 1..Len(s) : s[i] \in chars

\* s[from..to], empty when from > to
Slice(s, from, to) == [i \in 1..(to - from + 1) |-> s[from + i - 1]]

DigitValue(c) ==
    CASE c = "0" -> 0 [] c = "1" -> 1 [] c = "2" -> 2 [] c = "3" -> 3
      [] c = "4" -> 4 [] c = "5" -> 5 [] c = "6" -> 6 [] c = "7" -> 7
      [] c = "8" -> 8 [] c = "9" -> 9

----------------------------------------------------------------------------
(* validate_response *)

\* ^[a-zA-Z0-9_.+-]+@[a-zA-Z0-9-]+\.[a-zA-Z0-9-.]+$
MatchEmail(s) ==
    \E at \in 1..Len(s) : \E dot \in (at + 1)..Len(s) :
        /\ s[at] = "@"
        /\ s[dot] = "."
        /\ at > 1 /\ AllIn(Slice(s, 1, at - 1), EmailLocalChars)
        /\ dot > at + 1 /\ AllIn(Slice(s, at + 1, dot - 1), EmailDomainChars)
        /\ dot < Len(s) /\ AllIn(Slice(s, dot + 1, Len(s)), EmailTldChars)

\* MatchPhone with the plus sign required: ^\+[1-9]\d{1,14}$
MatchPhonePlusRequired(s) ==
    /\ Len(s) >= 3 /\ Len(s) <= 16
    /\ s[1] = "+"
    /\ s[2] \in NonZeroDigits
    /\ AllIn(Tail(Tail(s)), Digits)

\* ^\+?[1-9]\d{1,14}$
MatchPhone(s) ==
    LET body == IF Len(s) > 0 /\ s[1] = "+" THEN Tail(s) ELSE s
    IN  /\ Len(body) >= 2 /\ Len(body) <= 15
        /\ body[1] \in NonZeroDigits
        /\ AllIn(Tail(body), Digits)

\* ^\d+$
MatchNumber(s) == Len(s) >= 1 /\ AllIn(s, Digits)

\* MatchScale by value, leading zeros allowed: ^0*([1-9]|10)$
MatchScaleByValue(s) ==
    \E k \in 0..Len(s) :
        /\ AllIn(SubSeq(s, 1, k), {"0"})
        /\ \/ Len(s) = k + 1 /\ s[Len(s)] \in NonZeroDigits
           \/ SubSeq(s, k + 1, Len(s)) = <<"1", "0">>

\* ^([1-9]|10)$
MatchScale(s) ==
    \/ Len(s) = 1 /\ s[1] \in NonZeroDigits
    \/ s = <<"1", "0">>

validate_response(response, field_type) ==
    CASE field_type = "email" -> MatchEmail(response)
      [] field_type = "phone" -> MatchPhone(response)
      [] field_type = "number" -> MatchNumber(response)
      [] field_type = "scale" -> MatchScale(response)
      [] OTHER -> TRUE

----------------------------------------------------------------------------
(* qualify_lead *)

\* The weights 0.4, 0.3, 0.3 are kept in hundredths: `weight * 100` of
\* lines 55, 58 and 61 is 40.0, 30.0 and 30.0 exactly.
QUALIFICATION_CRITERIA ==
    [budget         |-> [threshold |-> 10000, weight100 |-> 40],
     timeline       |-> [threshold |-> 30,    weight100 |-> 30],
     interest_level |-> [threshold |-> 7,     weight100 |-> 30]]

\* str.strip() as float() and int() apply it to their argument (blanks only)
RECURSIVE Strip(_)
Strip(s) ==
    IF Len(s) > 0 /\ s[1] = " " THEN Strip(Tail(s))
    ELSE IF Len(s) > 0 /\ s[Len(s)] = " " THEN Strip(SubSeq(s, 1, Len(s) - 1))
    ELSE s

RECURSIVE DecimalValue(_)
DecimalValue(s) ==
    IF Len(s) = 0 THEN 0
    ELSE 10 * DecimalValue(SubSeq(s, 1, Len(s) - 1)) + DigitValue(s[Len(s)])

RECURSIVE PowerOfTen(_)
PowerOfTen(n) == IF n = 0 THEN 1 ELSE 10 * PowerOfTen(n - 1)

Signed(s) == Len(s) > 0 /\ s[1] \in {"+", "-"}

Sign(t) == IF Signed(t) /\ t[1] = "-" THEN -1 ELSE 1

Unsigned(t) == IF Signed(t) THEN Tail(t) ELSE t

IntOf(sign, body) ==
    IF Len(body) >= 1 /\ AllIn(body, Digits)
    THEN [ok |-> TRUE, val |-> sign * DecimalValue(body)]
    ELSE [ok |-> FALSE, val |-> 0]

\* int(text) of a str: blanks stripped, an optional sign, then one or more
\* digits; anything else raises ValueError (ok = FALSE).  Digit-group
\* underscores are outside the alphabet of the texts explored.
ParseInt(text) == IntOf(Sign(Strip(text)), Unsigned(Strip(text)))

Points(body) == {i \in 1..Len(body) : body[i] = "."}

\* The position of the decimal point, past the end when there is none
PointAt(body) ==
    IF Points(body) = {} THEN Len(body) + 1 ELSE CHOOSE i \in Points(body) : TRUE

FloatOf(sign, whole, frac, npoints) ==
    IF /\ npoints <= 1
       /\ AllIn(whole, Digits) /\ AllIn(frac, Digits)
       /\ Len(whole) + Len(frac) >= 1
    THEN [ok  |-> TRUE,
          num |-> sign * (DecimalValue(whole) * PowerOfTen(Len(frac)) + DecimalValue(frac)),
          den |-> PowerOfTen(Len(frac))]
    ELSE [ok |-> FALSE, num |-> 0, den |-> 1]

DecimalOf(sign, body) ==
    FloatOf(sign,
            SubSeq(body, 1, PointAt(body) - 1),
            SubSeq(body, PointAt(body) + 1, Len(body)),
            Cardinality(Points(body)))

\* float(text) of a str: blanks stripped, an optional sign, then digits with
\* at most one decimal point and at least one digit; anything else raises
\* ValueError (ok = FALSE).  The value is num / den, den a power of ten.
\* Exponents, "inf", "nan" and underscores are outside the alphabet of the
\* texts explored.
ParseFloat(text) == DecimalOf(Sign(Strip(text)), Unsigned(Strip(text)))

\* Category with the Warm bucket starting at 70
CategoryWarmAt70(score) ==
    IF score >= 80 THEN "Hot"
    ELSE IF score >= 70 THEN "Warm"
    ELSE "Cold"

\* lines 63-67
Category(score) ==
    IF score >= 80 THEN "Hot"
    ELSE IF score >= 50 THEN "Warm"
    ELSE "Cold"

\* Score with the budget threshold compared strictly (> for >=)
ScoreStrict(budget, timeline, interest_level) ==
    (IF budget.num > QUALIFICATION_CRITERIA.budget.threshold * budget.den
     THEN QUALIFICATION_CRITERIA.budget.weight100 ELSE 0)
    + (IF timeline.val <= QUALIFICATION_CRITERIA.timeline.threshold
       THEN QUALIFICATION_CRITERIA.timeline.weight100 ELSE 0)
    + (IF interest_level.val >= QUALIFICATION_CRITERIA.interest_level.threshold
       THEN QUALIFICATION_CRITERIA.interest_level.weight100 ELSE 0)

\* lines 54-61: the score of the three converted values
Score(budget, timeline, interest_level) ==
    (IF budget.num >= QUALIFICATION_CRITERIA.budget.threshold * budget.den
     THEN QUALIFICATION_CRITERIA.budget.weight100 ELSE 0)
    + (IF timeline.val <= QUALIFICATION_CRITERIA.timeline.threshold
       THEN QUALIFICATION_CRITERIA.timeline.weight100 ELSE 0)
    + (IF interest_level.val >= QUALIFICATION_CRITERIA.interest_level.threshold
       THEN QUALIFICATION_CRITERIA.interest_level.weight100 ELSE 0)

\* Categorize scoring whatever the conversions left, failed or not
CategorizeIgnoreErrors(budget, timeline, interest_level) ==
    Category(Score(budget, timeline, interest_level))

\* The try block: a conversion that raised sends control to `except`
Categorize(budget, timeline, interest_level) ==
    IF budget.ok /\ timeline.ok /\ interest_level.ok
    THEN Category(Score(budget, timeline, interest_level))
    ELSE "Cold"

\* qualify_lead with 0 for 999 as the default of a missing timeline
qualify_leadTimelineDefault0(lead_data) ==
    Categorize(
        IF "budget" \in DOMAIN lead_data
        THEN ParseFloat(lead_data.budget)
        ELSE [ok |-> TRUE, num |-> 0, den |-> 1],
        IF "timeline" \in DOMAIN lead_data
        THEN ParseInt(lead_data.timeline)
        ELSE [ok |-> TRUE, val |-> 0],
        IF "interest_level" \in DOMAIN lead_data
        THEN ParseInt(lead_data.interest_level)
        ELSE [ok |-> TRUE, val |-> 0])

\* lines 50-52: the three conversions, each made once
Conversions(lead_data) ==
    {<<budget, timeline, interest_level>> :
        budget \in {IF "budget" \in DOMAIN lead_data
                    THEN ParseFloat(lead_data.budget)
                    ELSE [ok |-> TRUE, num |-> 0, den |-> 1]},
        timeline \in {IF "timeline" \in DOMAIN lead_data
                      THEN ParseInt(lead_data.timeline)
                      ELSE [ok |-> TRUE, val |-> 999]},
        interest_level \in {IF "interest_level" \in DOMAIN lead_data
                            THEN ParseInt(lead_data.interest_level)
                            ELSE [ok |-> TRUE, val |-> 0]}}

qualify_lead(lead_data) ==
    CHOOSE cat \in {Categorize(c[1], c[2], c[3]) : c \in Conversions(lead_data)} : TRUE

----------------------------------------------------------------------------
(* Session state *)

\* A Python dict with no keys
EmptyDict == [k \in {} |-> k]

\* dict[key] = value, adding the key when it is new
DictSet(d, key, value) ==
    [k \in DOMAIN d \cup {key} |-> IF k = key THEN value ELSE d[k]]

\* if key not in st.session_state: st.session_state[key] = value
SetDefault(ss, key, value) == IF key \in DOMAIN ss THEN ss ELSE DictSet(ss, key, value)

\* lines 16-27
InitSessionState(ss) ==
    SetDefault(
        SetDefault(
            SetDefault(
                SetDefault(ss, "messages", <<>>),
                "lead_data", EmptyDict),
            "conversation_stage", "greeting"),
        "analytics",
        [interactions |-> <<>>, conversion_rate |-> 0, lead_scores |-> <<>>])

\* A reset that forgets the conversation but keeps the analytics
SessionClearKeepAnalytics(ss) == [k \in DOMAIN ss \cap {"analytics"} |-> ss[k]]

\* st.session_state.clear()
SessionClear(ss) == EmptyDict

----------------------------------------------------------------------------
(* get_next_question *)

stages ==
    [greeting |-> [question |-> "Hi there! Welcome to Opolla. How can we help you today?",
                   type |-> "greeting"],
     qualify  |-> << [question |-> "What's your estimated budget for this project? (USD)",
                      field |-> "budget", type |-> "number"],
                     [question |-> "What's your ideal timeline for implementation (in days)?",
                      field |-> "timeline", type |-> "number"],
                     [question |-> "On a scale of 1-10, how urgent is this need?",
                      field |-> "interest_level", type |-> "scale"] >>,
     contact  |-> << [question |-> "What's your full name?",
                      field |-> "name", type |-> "text"],
                     [question |-> "What's your email address?",
                      field |-> "email", type |-> "email"],
                     [question |-> "What's the best phone number to reach you?",
                      field |-> "phone", type |-> "phone"] >>,
     schedule |-> [question |-> "Would you like to schedule a call with our expert?",
                   type |-> "schedule"]]

FallbackQuestion == [question |-> "How can I help you today?", type |-> "fallback"]

\* Unanswered looking at the first question of the stage only
UnansweredFirstOnly(qs, lead_data) == {i \in 1..1 : qs[i].field \notin DOMAIN lead_data}

\* The indexes of the questions of a stage whose field is not in lead_data
Unanswered(qs, lead_data) == {i \in 1..Len(qs) : qs[i].field \notin DOMAIN lead_data}

\* FirstUnanswered without the membership test: the stage's first question
FirstQuestion(qs, lead_data) == qs[1]

\* FirstUnanswered walking the questions of the stage backwards
LastUnanswered(qs, lead_data) ==
    qs[CHOOSE i \in Unanswered(qs, lead_data) :
           \A j \in Unanswered(qs, lead_data) : i >= j]

\* for q in qs: if q["field"] not in lead_data: return q
FirstUnanswered(qs, lead_data) ==
    qs[CHOOSE i \in Unanswered(qs, lead_data) :
           \A j \in Unanswered(qs, lead_data) : i <= j]

\* The question returned and the session state the call leaves behind.
\* A missing lead_data raises inside the try block: the except clause
\* reports it and the fallback question is returned.
RECURSIVE get_next_question(_)

\* get_next_question without the branch of the 'schedule' stage
get_next_questionNoSchedule(ss) ==
    IF ss.conversation_stage = "greeting"
    THEN [q |-> stages.greeting, ss |-> ss]
    ELSE IF ss.conversation_stage = "qualify"
    THEN IF Unanswered(stages.qualify, ss.lead_data) # {}
         THEN [q |-> FirstUnanswered(stages.qualify, ss.lead_data), ss |-> ss]
         ELSE get_next_question([ss EXCEPT !.conversation_stage = "contact"])
    ELSE IF ss.conversation_stage = "contact"
    THEN IF Unanswered(stages.contact, ss.lead_data) # {}
         THEN [q |-> FirstUnanswered(stages.contact, ss.lead_data), ss |-> ss]
         ELSE [q |-> stages.schedule,
               ss |-> [ss EXCEPT !.conversation_stage = "schedule"]]
    ELSE [q |-> FallbackQuestion, ss |-> ss]

get_next_question(ss) ==
    IF ss.conversation_stage = "greeting"
    THEN [q |-> stages.greeting, ss |-> ss]
    ELSE IF ss.conversation_stage = "qualify"
    THEN IF "lead_data" \notin DOMAIN ss
         THEN [q |-> FallbackQuestion, ss |-> ss]
         ELSE IF Unanswered(stages.qualify, ss.lead_data) # {}
         THEN [q |-> FirstUnanswered(stages.qualify, ss.lead_data), ss |-> ss]
         ELSE get_next_question([ss EXCEPT !.conversation_stage = "contact"])
    ELSE IF ss.conversation_stage = "contact"
    THEN IF "lead_data" \notin DOMAIN ss
         THEN [q |-> FallbackQuestion, ss |-> ss]
         ELSE IF Unanswered(stages.contact, ss.lead_data) # {}
         THEN [q |-> FirstUnanswered(stages.contact, ss.lead_data), ss |-> ss]
         ELSE [q |-> stages.schedule,
               ss |-> [ss EXCEPT !.conversation_stage = "schedule"]]
    ELSE IF ss.conversation_stage = "schedule"
    THEN [q |-> stages.schedule, ss |-> ss]
    ELSE [q |-> FallbackQuestion, ss |-> ss]

----------------------------------------------------------------------------
(* track_analytics *)

\* track_analytics assigning the list instead of appending to it
track_analyticsAssign(ss, event_type, metadata) ==
    [ss EXCEPT !.analytics.interactions =
        <<[event_type |-> event_type, metadata |-> metadata]>>]

track_analytics(ss, event_type, metadata) ==
    [ss EXCEPT !.analytics.interactions =
        Append(@, [event_type |-> event_type, metadata |-> metadata])]

----------------------------------------------------------------------------
(* main: one script run *)

\* The buttons of the page
YesButton == "Yes, Schedule Now"
NoButton == "No, Later"
ResetButton == "Reset Conversation"
ExportButton == "Export Leads CSV"
NoClick == "none"

\* The page shows at most one text input, keyed by the asked field
\* (key input_<field>); `field` is "none" when there is none.
NoTextInput == [field |-> "none", value |-> <<>>]

\* required_fields with the answer to the schedule question among them
required_fieldsWithScheduled ==
    <<"name", "email", "phone", "budget", "timeline", "interest_level", "scheduled">>

required_fields == <<"name", "email", "phone", "budget", "timeline", "interest_level">>

\* What a run hands on: the session state, the text input and the buttons
\* it rendered, and whether st.rerun() ended it.
Outcome(ss, text, buttons, rerun) ==
    [ss |-> ss, text |-> text, buttons |-> buttons, rerun |-> rerun]

\* lines 206-218: the two buttons; a button is True in the run its click caused
AskSchedule(ss, clicked) ==
    IF clicked = YesButton
    THEN Outcome(track_analytics([ss EXCEPT !.lead_data = DictSet(@, "scheduled", TRUE)],
                                 "meeting_scheduled", EmptyDict),
                 NoTextInput, {YesButton}, TRUE)
    ELSE IF clicked = NoButton
    THEN Outcome(track_analytics([ss EXCEPT !.lead_data = DictSet(@, "scheduled", FALSE)],
                                 "meeting_declined", EmptyDict),
                 NoTextInput, {YesButton, NoButton}, TRUE)
    ELSE Outcome(ss, NoTextInput, {YesButton, NoButton}, FALSE)

\* AcceptInput without the call of validate_response
AcceptInputUnvalidated(next_q, ss, user_input) ==
    IF user_input # <<>>
    THEN Outcome(track_analytics([ss EXCEPT !.lead_data = DictSet(@, next_q.field, user_input)],
                                 "question_answered",
                                 [field |-> next_q.field, value |-> user_input]),
                 [field |-> next_q.field, value |-> user_input], {}, TRUE)
    ELSE Outcome(ss, [field |-> next_q.field, value |-> user_input], {}, FALSE)

\* AcceptInput assigning lead_data a new dict holding the answer alone
AcceptInputReplace(next_q, ss, user_input) ==
    IF user_input # <<>> /\ validate_response(user_input, next_q.type)
    THEN Outcome(track_analytics([ss EXCEPT !.lead_data =
                                                DictSet(EmptyDict, next_q.field, user_input)],
                                 "question_answered",
                                 [field |-> next_q.field, value |-> user_input]),
                 [field |-> next_q.field, value |-> user_input], {}, TRUE)
    ELSE Outcome(ss, [field |-> next_q.field, value |-> user_input], {}, FALSE)

\* lines 227-234
AcceptInput(next_q, ss, user_input) ==
    IF user_input # <<>> /\ validate_response(user_input, next_q.type)
    THEN Outcome(track_analytics([ss EXCEPT !.lead_data = DictSet(@, next_q.field, user_input)],
                                 "question_answered",
                                 [field |-> next_q.field, value |-> user_input]),
                 [field |-> next_q.field, value |-> user_input], {}, TRUE)
    ELSE Outcome(ss, [field |-> next_q.field, value |-> user_input], {}, FALSE)

\* lines 220-226: the text input keyed input_<field> holds what the browser
\* sent for that key, and is empty when first rendered
AskField(next_q, ss, text) ==
    AcceptInput(next_q, ss, IF text.field = next_q.field THEN text.value ELSE <<>>)

\* lines 199-234
Dispatch(next_q, ss, text, clicked) ==
    IF next_q.type = "greeting"
    THEN Outcome([ss EXCEPT !.conversation_stage = "qualify"], NoTextInput, {}, TRUE)
    ELSE IF next_q.type = "schedule"
    THEN AskSchedule(ss, clicked)
    ELSE IF "field" \in DOMAIN next_q
    THEN AskField(next_q, ss, text)
    ELSE Outcome(ss, NoTextInput, {}, FALSE)

Asked(r, text, clicked) == Dispatch(r.q, r.ss, text, clicked)

\* lines 196-234.  `text` is the text input as the browser sent it, `clicked`
\* the button whose click caused this run.
ConversationHandler(ss, text, clicked) ==
    IF ss.conversation_stage # "completed"
    THEN Asked(get_next_question(ss), text, clicked)
    ELSE Outcome(ss, NoTextInput, {}, FALSE)

\* Convert starting the conversation over instead of completing it
ConvertRestart(ss, cat) ==
    [ss |-> track_analytics(
                [ss EXCEPT !.conversation_stage = "greeting",
                           !.analytics.lead_scores =
                               Append(@, DictSet(ss.lead_data, "category", cat))],
                "conversion", EmptyDict),
     category |-> cat]

\* Convert recording the category without the lead's data
ConvertCategoryOnly(ss, cat) ==
    [ss |-> track_analytics(
                [ss EXCEPT !.conversation_stage = "completed",
                           !.analytics.lead_scores = Append(@, [category |-> cat])],
                "conversion", EmptyDict),
     category |-> cat]

\* lines 239-246
Convert(ss, cat) ==
    [ss |-> track_analytics(
                [ss EXCEPT !.conversation_stage = "completed",
                           !.analytics.lead_scores =
                               Append(@, DictSet(ss.lead_data, "category", cat))],
                "conversion", EmptyDict),
     category |-> cat]

\* FinalConversion with any() for all()
FinalConversionAny(ss) ==
    IF \E i \in 1..Len(required_fields) : required_fields[i] \in DOMAIN ss.lead_data
    THEN CHOOSE f \in {Convert(ss, cat) : cat \in {qualify_lead(ss.lead_data)}} : TRUE
    ELSE [ss |-> ss, category |-> "none"]

\* lines 236-246
FinalConversion(ss) ==
    IF \A i \in 1..Len(required_fields) : required_fields[i] \in DOMAIN ss.lead_data
    THEN CHOOSE f \in {Convert(ss, cat) : cat \in {qualify_lead(ss.lead_data)}} : TRUE
    ELSE [ss |-> ss, category |-> "none"]

\* lines 256-268: the Reset button, then the export button, enabled when
\* there are lead scores
Controls(f, h, clicked) ==
    IF clicked = ResetButton
    THEN [ss |-> SessionClear(f.ss), text |-> NoTextInput,
          rendered |-> h.buttons \cup {ResetButton},
          rerun |-> TRUE, category |-> f.category]
    ELSE [ss |-> f.ss, text |-> h.text,
          rendered |-> h.buttons \cup {ResetButton} \cup
                       (IF f.ss.analytics.lead_scores # <<>> THEN {ExportButton} ELSE {}),
          rerun |-> FALSE, category |-> f.category]

\* What follows the conversation handler; st.rerun() in it ends the run
AfterHandler(h, clicked) ==
    IF h.rerun
    THEN [ss |-> h.ss, text |-> h.text, rendered |-> h.buttons,
          rerun |-> TRUE, category |-> "none"]
    ELSE Controls(FinalConversion(h.ss), h, clicked)

\* The whole script, lines 16-27 and main (lines 181-279).  Each part works
\* on the value the part before it left, computed once.
ScriptRun(ss_in, text, clicked) ==
    CHOOSE run \in {AfterHandler(h, clicked) :
                       h \in {ConversationHandler(ss, text, clicked) :
                                ss \in {InitSessionState(ss_in)}}} : TRUE

----------------------------------------------------------------------------
(* Texts the user types *)

Txt_abc == <<"a", "b", "c">>
Txt_5 == <<"5">>
Txt_10 == <<"1", "0">>
Txt_20000 == <<"2", "0", "0", "0", "0">>
Txt_email == <<"a", "@", "b", ".", "c", "o">>
Txt_phone == <<"+", "1", "4", "1", "5", "5", "5", "5", "1", "2", "3", "4">>

Inputs == {<<>>, Txt_abc, Txt_5, Txt_10, Txt_20000, Txt_email, Txt_phone}

----------------------------------------------------------------------------
(* The session as a state machine *)

\* No function is applied on its own
NoCall == [args |-> <<>>, done |-> FALSE, value |-> "none"]

Init ==
    /\ session_state = EmptyDict
    /\ widget_state = NoTextInput
    /\ rendered = {}
    /\ rerun_requested = TRUE
    /\ category = "none"
    /\ call = NoCall

\* The outcome of a run becomes the state (the run is evaluated once, as
\* the one element of a set, and then applied)
Apply(run) ==
    /\ session_state' = run.ss
    /\ widget_state' = run.text
    /\ rendered' = run.rendered
    /\ rerun_requested' = run.rerun
    /\ category' = run.category
    /\ UNCHANGED call

ScoresFull ==
    /\ "analytics" \in DOMAIN session_state
    /\ Len(session_state.analytics.lead_scores) >= MaxScores

\* The first run of a session, and the run st.rerun() asks for
Rerun ==
    /\ rerun_requested
    /\ \E run \in {ScriptRun(session_state, widget_state, NoClick)} : Apply(run)

\* The user changes the text input to v and presses Enter
SubmitValue(v) ==
    /\ ~rerun_requested
    /\ widget_state.field # "none"
    /\ v # widget_state.value
    /\ \E run \in {ScriptRun(session_state, [widget_state EXCEPT !.value = v], NoClick)} :
        Apply(run)

SubmitText == \E v \in Inputs : SubmitValue(v)

Click(button) ==
    /\ ~rerun_requested
    /\ button \in rendered
    /\ \E run \in {ScriptRun(session_state, widget_state, button)} : Apply(run)

ClickYes == ~ScoresFull /\ Click(YesButton)

ClickNo == ~ScoresFull /\ Click(NoButton)

ClickExport == ~ScoresFull /\ Click(ExportButton)

ClickReset == Click(ResetButton)

Next ==
    \/ Rerun
    \/ SubmitText
    \/ ClickYes
    \/ ClickNo
    \/ ClickExport
    \/ ClickReset

Spec == Init /\ [][Next]_vars

----------------------------------------------------------------------------
(* The session without Reset, the script re-run whenever st.rerun() asks   *)
(* for it and the user in the end giving each question a valid answer      *)

\* The user submits a text that passes for the question on the page
SubmitValid ==
    \E v \in Inputs :
        /\ v # <<>>
        /\ ~rerun_requested
        /\ widget_state.field # "none"
        /\ validate_response(v, get_next_question(session_state).q.type)
        /\ SubmitValue(v)

NextNoReset ==
    \/ Rerun
    \/ SubmitText
    \/ ClickYes
    \/ ClickNo
    \/ ClickExport

LiveSpec ==
    /\ Init
    /\ [][NextNoReset]_vars
    /\ WF_vars(Rerun)
    /\ WF_vars(SubmitValid)

----------------------------------------------------------------------------
(* qualify_lead on its own: every lead_data over a small set of texts *)

Txt_9999 == <<"9", "9", "9", "9">>
Txt_10000 == <<"1", "0", "0", "0", "0">>
Txt_10000_5 == <<"1", "0", "0", "0", "0", ".", "5">>
Txt_30 == <<"3", "0">>
Txt_31 == <<"3", "1">>
Txt_7 == <<"7">>
Txt_6 == <<"6">>

QualifyTexts == {Txt_9999, Txt_10000, Txt_10000_5, Txt_30, Txt_31, Txt_7, Txt_6, Txt_abc}

QualifyFields == {"budget", "timeline", "interest_level"}

\* Every mapping of some of the three scored fields to one of the texts
QualifyLeads == UNION {[D -> QualifyTexts] : D \in SUBSET QualifyFields}

InitQualify ==
    /\ \E ld \in QualifyLeads :
        session_state = [InitSessionState(EmptyDict) EXCEPT !.lead_data = ld]
    /\ widget_state = NoTextInput
    /\ rendered = {}
    /\ rerun_requested = FALSE
    /\ category = "none"
    /\ call = NoCall

\* category = qualify_lead(st.session_state.lead_data), line 240
QualifyCall ==
    /\ category = "none"
    /\ category' = qualify_lead(session_state.lead_data)
    /\ UNCHANGED <<session_state, widget_state, rendered, rerun_requested, call>>

NextQualify == QualifyCall

SpecQualify == InitQualify /\ [][NextQualify]_vars

----------------------------------------------------------------------------
(* validate_response on its own: every digit string up to MaxDigits digits, *)
(* and a few texts, against every field type                               *)

\* The longest digit string tried
MaxDigits == 2

DigitStrings == UNION {[1..n -> Digits] : n \in 0..MaxDigits}

Txt_155551234 == <<"1", "5", "5", "5", "5", "1", "2", "3", "4">>
Txt_14155551234 == <<"1", "4", "1", "5", "5", "5", "5", "1", "2", "3", "4">>
Txt_0155551234 == <<"0", "1", "5", "5", "5", "5", "1", "2", "3", "4">>
Txt_plus0 == <<"+", "0", "1", "5", "5", "5", "5", "1", "2", "3", "4">>
Txt_16digits ==
    <<"1", "2", "3", "4", "5", "6", "7", "8", "9", "0", "1", "2", "3", "4", "5", "6">>
Txt_not_an_email == <<"n", "o", "t", "-", "a", "n", "-", "e", "m", "a", "i", "l">>

ValidateTexts ==
    DigitStrings \cup
    {Txt_phone, Txt_155551234, Txt_14155551234, Txt_0155551234, Txt_plus0,
     Txt_16digits, Txt_email, Txt_not_an_email, Txt_abc}

\* The `type` of the questions of `stages`
FieldTypes == {"number", "scale", "text", "email", "phone"}

InitValidate ==
    /\ session_state = InitSessionState(EmptyDict)
    /\ widget_state = NoTextInput
    /\ rendered = {}
    /\ rerun_requested = FALSE
    /\ category = "none"
    /\ \E response \in ValidateTexts : \E field_type \in FieldTypes :
        call = [args |-> [response |-> response, field_type |-> field_type],
                done |-> FALSE, value |-> "none"]

\* validate_response(user_input, next_q["type"]), line 228
ValidateCall ==
    /\ ~call.done
    /\ call' = [call EXCEPT !.done = TRUE,
                            !.value = validate_response(call.args.response,
                                                        call.args.field_type)]
    /\ UNCHANGED <<session_state, widget_state, rendered, rerun_requested, category>>

NextValidate == ValidateCall

SpecValidate == InitValidate /\ [][NextValidate]_vars

----------------------------------------------------------------------------
(* get_next_question on its own: every stage, one value outside the five,  *)
(* and every set of answered fields                                        *)

SequencerStages == {"greeting", "qualify", "contact", "schedule", "completed", "unknown"}

QuestionFields == {"budget", "timeline", "interest_level", "name", "email", "phone"}

InitSequencer ==
    /\ \E stage \in SequencerStages :
        \E ld \in UNION {[D -> {Txt_5}] : D \in SUBSET QuestionFields} :
            /\ session_state = [InitSessionState(EmptyDict) EXCEPT
                                    !.conversation_stage = stage, !.lead_data = ld]
            /\ call = [args |-> [current_stage |-> stage], done |-> FALSE, value |-> "none"]
    /\ widget_state = NoTextInput
    /\ rendered = {}
    /\ rerun_requested = FALSE
    /\ category = "none"

Returned(r, c) == [c EXCEPT !.done = TRUE, !.value = r.q]

\* next_q = get_next_question(), line 197, without the guard of line 196
SequencerCall ==
    /\ ~call.done
    /\ call' = Returned(get_next_question(session_state), call)
    /\ session_state' = get_next_question(session_state).ss
    /\ UNCHANGED <<widget_state, rendered, rerun_requested, category>>

NextSequencer == SequencerCall

SpecSequencer == InitSequencer /\ [][NextSequencer]_vars

----------------------------------------------------------------------------
(* Properties *)

ContactFields == {"name", "email", "phone"}

HasSession == DOMAIN InitSessionState(EmptyDict) \subseteq DOMAIN session_state

\* The session state as get_next_question leaves it in the run that starts
\* in the current state
AfterQuestion == get_next_question(InitSessionState(session_state))

QuestionAsked == InitSessionState(session_state).conversation_stage # "completed"

Rank(stage) ==
    CASE stage = "greeting" -> 0
      [] stage = "qualify" -> 1
      [] stage = "contact" -> 2
      [] stage = "schedule" -> 3
      [] stage = "completed" -> 4

StageFieldsPresent(ss) ==
    /\ ss.conversation_stage = "contact" => QualifyFields \subseteq DOMAIN ss.lead_data
    /\ ss.conversation_stage = "schedule" =>
           (QualifyFields \cup ContactFields) \subseteq DOMAIN ss.lead_data

\* C1: in the 'contact' stage budget, timeline and interest_level are in
\* lead_data, and in the 'schedule' stage name, email and phone are too;
\* both between runs and where get_next_question has just moved the stage.
C1_StageFollowsFields ==
    /\ HasSession => StageFieldsPresent(session_state)
    /\ QuestionAsked => StageFieldsPresent(AfterQuestion.ss)

\* get_next_question takes the step contact -> schedule
W1_ContactToSchedule ==
    /\ HasSession
    /\ session_state.conversation_stage = "contact"
    /\ AfterQuestion.ss.conversation_stage = "schedule"

\* C2: in the 'completed' stage all six required fields are in lead_data.
C2_CompletedHasAllFields ==
    (HasSession /\ session_state.conversation_stage = "completed") =>
        \A i \in 1..Len(required_fields) :
            required_fields[i] \in DOMAIN session_state.lead_data

W2_Completed ==
    /\ HasSession
    /\ session_state.conversation_stage = "completed"
    /\ Len(session_state.analytics.lead_scores) = 1

StageNotDecreased ==
    /\ "conversation_stage" \in DOMAIN session_state'
    /\ "conversation_stage" \in DOMAIN session_state =>
           Rank(session_state'.conversation_stage) >= Rank(session_state.conversation_stage)

\* C3: a script run that is not the run of a Reset click never leaves the
\* stage earlier in greeting < qualify < contact < schedule < completed
\* than it found it.
C3_StageNeverRegresses == [][ClickReset \/ StageNotDecreased]_vars

\* A user-triggered run in the 'contact' stage has left the stage where it was
W3_RunInContactStage ==
    /\ HasSession
    /\ session_state.conversation_stage = "contact"
    /\ ~rerun_requested
    /\ widget_state.value # <<>>

\* C4: between two resets at most one record is appended to lead_scores.
C4_OneScorePerConversation ==
    HasSession => Len(session_state.analytics.lead_scores) <= 1

\* C5: a question get_next_question returns with a target field asks for a
\* field that is not in lead_data when it returns.
C5_QuestionFieldUnanswered ==
    (QuestionAsked /\ "field" \in DOMAIN AfterQuestion.q) =>
        AfterQuestion.q.field \notin DOMAIN AfterQuestion.ss.lead_data

\* A question is returned after the questions before it were skipped as answered
W5_LaterQuestionReturned ==
    /\ QuestionAsked
    /\ "field" \in DOMAIN AfterQuestion.q
    /\ Cardinality(DOMAIN AfterQuestion.ss.lead_data) >= 2

\* The text v does not pass for the question on the page
Rejected(v) == v = <<>> \/ ~validate_response(v, AfterQuestion.q.type)

NothingAccepted(v) ==
    /\ session_state' = session_state
    /\ ~rerun_requested'
    /\ widget_state' = [field |-> widget_state.field, value |-> v]
    /\ get_next_question(InitSessionState(session_state')).q = AfterQuestion.q
    /\ AfterQuestion.q.field = widget_state.field
    /\ widget_state.field \notin DOMAIN session_state'.lead_data

\* C6: the run of a submitted text that is empty or fails validate_response
\* for the asked question's type leaves the session state (lead_data, the
\* interaction log, lead_scores, the stage) as it was, and the next
\* get_next_question returns the same question, its field still unanswered.
C6_InvalidInputChangesNothing ==
    [][\A v \in Inputs : (SubmitValue(v) /\ Rejected(v)) => NothingAccepted(v)]_vars

\* The page shows a text that was submitted and rejected
W6_RejectedTextOnPage ==
    /\ ~rerun_requested
    /\ widget_state.field = "email"
    /\ widget_state.value = Txt_abc
    /\ "email" \notin DOMAIN session_state.lead_data

FreshAtNextRun ==
    /\ rerun_requested'
    /\ DOMAIN InitSessionState(session_state').lead_data = {}
    /\ InitSessionState(session_state').analytics.interactions = <<>>
    /\ InitSessionState(session_state').analytics.lead_scores = <<>>
    /\ InitSessionState(session_state').conversation_stage = "greeting"

\* C7: a click on Reset, in any stage, leaves a session in which the next
\* run starts with lead_data, the interaction log and lead_scores empty and
\* the stage 'greeting'.
C7_ResetClearsSession == [][ClickReset => FreshAtNextRun]_vars

\* Reset was clicked on the page of a completed conversation
W7_ResetAfterCompletion ==
    /\ DOMAIN session_state = {}
    /\ ResetButton \in rendered
    /\ category # "none"

LeadDataKept ==
    "lead_data" \in DOMAIN session_state =>
        /\ "lead_data" \in DOMAIN session_state'
        /\ DOMAIN session_state.lead_data \subseteq DOMAIN session_state'.lead_data

\* C8: every step but Reset keeps every field lead_data holds.
C8_LeadDataOnlyGrows == [][ClickReset \/ LeadDataKept]_vars

\* A second answer was stored while the first was held
W8_TwoFieldsHeld ==
    /\ HasSession
    /\ rerun_requested
    /\ DOMAIN session_state.lead_data = {"budget", "timeline"}

LogExtended ==
    "analytics" \in DOMAIN session_state =>
        /\ "analytics" \in DOMAIN session_state'
        /\ Len(session_state.analytics.interactions)
               <= Len(session_state'.analytics.interactions)
        /\ SubSeq(session_state'.analytics.interactions,
                  1, Len(session_state.analytics.interactions))
               = session_state.analytics.interactions

\* C9: in every step but Reset the interaction log before the step is a
\* prefix of the log after it.
C9_LogAppendOnly == [][ClickReset \/ LogExtended]_vars

\* The log holds answers and a conversion
W9_LogOfSeveralEvents ==
    /\ HasSession
    /\ Len(session_state.analytics.interactions) >= 7

\* The three scored fields are present, convert, and meet their thresholds
MeetsAllThresholds(lead_data) ==
    /\ QualifyFields \subseteq DOMAIN lead_data
    /\ ParseFloat(lead_data.budget).ok
    /\ ParseInt(lead_data.timeline).ok
    /\ ParseInt(lead_data.interest_level).ok
    /\ ParseFloat(lead_data.budget).num >= 10000 * ParseFloat(lead_data.budget).den
    /\ ParseInt(lead_data.timeline).val <= 30
    /\ ParseInt(lead_data.interest_level).val >= 7

\* C10: qualify_lead returns 'Hot' for every lead_data whose budget,
\* timeline and interest_level are numeric with budget >= 10000,
\* timeline <= 30 and interest_level >= 7.
C10_HotWhenAllThresholdsMet ==
    (category # "none" /\ MeetsAllThresholds(session_state.lead_data)) =>
        category = "Hot"

\* qualify_lead has returned for a lead_data exactly on the three thresholds
W10_HotOnTheThresholds ==
    /\ category = "Hot"
    /\ session_state.lead_data =
           [budget |-> Txt_10000, timeline |-> Txt_30, interest_level |-> Txt_7]

\* Every scored field lead_data holds converts: float() takes the budget,
\* int() the timeline and the interest level
AllNumeric(lead_data) ==
    /\ "budget" \in DOMAIN lead_data => ParseFloat(lead_data.budget).ok
    /\ "timeline" \in DOMAIN lead_data => ParseInt(lead_data.timeline).ok
    /\ "interest_level" \in DOMAIN lead_data => ParseInt(lead_data.interest_level).ok

\* The thresholds a lead_data of numeric fields meets; a missing field
\* meets none
ThresholdsMet(lead_data) ==
    {f \in QualifyFields \cap DOMAIN lead_data :
        \/ f = "budget" /\ ParseFloat(lead_data[f]).num >= 10000 * ParseFloat(lead_data[f]).den
        \/ f = "timeline" /\ ParseInt(lead_data[f]).val <= 30
        \/ f = "interest_level" /\ ParseInt(lead_data[f]).val >= 7}

\* C11: qualify_lead returns 'Warm' for every lead_data of numeric fields
\* that meets exactly two of the three thresholds.
C11_WarmWhenTwoThresholdsMet ==
    (/\ category # "none"
     /\ AllNumeric(session_state.lead_data)
     /\ Cardinality(ThresholdsMet(session_state.lead_data)) = 2) =>
        category = "Warm"

\* qualify_lead has returned for timeline and interest on their thresholds
\* and a budget just under its own (30 + 30 = 60)
W11_WarmOnSixty ==
    /\ category = "Warm"
    /\ session_state.lead_data =
           [budget |-> Txt_9999, timeline |-> Txt_30, interest_level |-> Txt_7]

\* C12: qualify_lead returns 'Cold' for every lead_data of numeric or
\* missing fields that meets at most one threshold, a missing field meeting
\* none (budget 0, timeline 999, interest_level 0); so for the empty one.
C12_ColdWhenAtMostOneThresholdMet ==
    (/\ category # "none"
     /\ AllNumeric(session_state.lead_data)
     /\ Cardinality(ThresholdsMet(session_state.lead_data)) <= 1) =>
        category = "Cold"

\* qualify_lead has returned for a lead_data that lacks the timeline and
\* meets the interest threshold alone
W12_ColdWithMissingTimeline ==
    /\ category = "Cold"
    /\ session_state.lead_data = [budget |-> Txt_9999, interest_level |-> Txt_7]

\* Some scored field lead_data holds does not convert
SomeNonNumeric(lead_data) == ~AllNumeric(lead_data)

\* C13: qualify_lead returns 'Cold' (it returns: the error is caught) when
\* budget, timeline or interest_level is present and not numeric, whatever
\* the other two are.
C13_ColdWhenNonNumeric ==
    (category # "none" /\ SomeNonNumeric(session_state.lead_data)) =>
        category = "Cold"

\* qualify_lead has returned for a budget that is no number, beside a
\* timeline and an interest level that meet their thresholds
W13_ColdDespiteTwoThresholds ==
    /\ category = "Cold"
    /\ session_state.lead_data =
           [budget |-> Txt_abc, timeline |-> Txt_30, interest_level |-> Txt_7]

\* The decimal strings "1" .. "10"
OneToTen ==
    {<<"1">>, <<"2">>, <<"3">>, <<"4">>, <<"5">>, <<"6">>, <<"7">>, <<"8">>, <<"9">>,
     <<"1", "0">>}

\* C14: validate_response with field type 'scale' returns True for "1" ..
\* "10" and False for every other text: "0", "11", zero-padded forms.
C14_ScaleAcceptsOneToTen ==
    (call.done /\ call.args.field_type = "scale") =>
        (call.value <=> call.args.response \in OneToTen)

\* validate_response has rejected the zero-padded "01" as a scale
W14_ZeroPaddedRejected ==
    /\ call.done
    /\ call.args = [response |-> <<"0", "1">>, field_type |-> "scale"]
    /\ call.value = FALSE

\* C15, as claimed: validate_response with field type 'phone' accepts
\* "+14155551234" and rejects "155551234".
C15_PhoneNeedsPlus ==
    (call.done /\ call.args.field_type = "phone") =>
        /\ call.args.response = Txt_phone => call.value = TRUE
        /\ call.args.response = Txt_155551234 => call.value = FALSE

\* C15, amended: validate_response with field type 'phone' accepts
\* "+14155551234" and accepts "155551234" too, the plus sign being optional;
\* it rejects "0155551234", whose first digit is 0.
C15_PhonePlusOptional ==
    (call.done /\ call.args.field_type = "phone") =>
        /\ call.args.response \in {Txt_phone, Txt_155551234} => call.value = TRUE
        /\ call.args.response = Txt_0155551234 => call.value = FALSE

\* validate_response has accepted "155551234" as a phone number
W15_NoPlusAccepted ==
    /\ call.done
    /\ call.args = [response |-> Txt_155551234, field_type |-> "phone"]
    /\ call.value = TRUE

\* The run has stored the answer to the schedule question and logged it
ScheduleAnswered(answer, event_type) ==
    /\ "lead_data" \in DOMAIN session_state'
    /\ "scheduled" \in DOMAIN session_state'.lead_data
    /\ session_state'.lead_data.scheduled = answer
    /\ Len(session_state'.analytics.interactions) >= 1
    /\ session_state'.analytics.interactions[
           Len(session_state'.analytics.interactions)].event_type = event_type

\* C16: the schedule question can be answered: the run that a click on
\* 'Yes, Schedule Now' (resp. 'No, Later') causes sets lead_data.scheduled
\* to True (resp. False) and appends a meeting_scheduled (resp.
\* meeting_declined) event.
C16_ScheduleClickProcessed ==
    [][/\ ClickYes => ScheduleAnswered(TRUE, "meeting_scheduled")
       /\ ClickNo => ScheduleAnswered(FALSE, "meeting_declined")]_vars

\* What holds instead of C16: no reachable state has an answer to the
\* schedule question or an event of it, and no run starts in the
\* 'schedule' stage.
NeverScheduled ==
    HasSession =>
        /\ "scheduled" \notin DOMAIN session_state.lead_data
        /\ session_state.conversation_stage # "schedule"
        /\ \A i \in 1..Len(session_state.analytics.interactions) :
               session_state.analytics.interactions[i].event_type
                   \notin {"meeting_scheduled", "meeting_declined"}

\* C17: get_next_question returns the fallback question when the stage is
\* 'completed' or any value outside greeting, qualify, contact, schedule,
\* and never when the stage is one of these four.
C17_FallbackOutsideTheFourStages ==
    call.done =>
        (call.value.type = "fallback"
            <=> call.args.current_stage
                    \notin {"greeting", "qualify", "contact", "schedule"})

\* get_next_question has returned the fallback in the 'completed' stage
W17_FallbackWhenCompleted ==
    /\ call.done
    /\ call.args = [current_stage |-> "completed"]
    /\ call.value = FallbackQuestion

\* The fields of the questions, in the order of stages.qualify then
\* stages.contact
FieldOrder == <<"budget", "timeline", "interest_level", "name", "email", "phone">>

\* C18: the question fields in lead_data are a prefix of budget, timeline,
\* interest_level, name, email, phone: no field is present unless every
\* field before it is.
C18_FieldsAnsweredInOrder ==
    HasSession =>
        \A i \in 1..Len(FieldOrder) :
            FieldOrder[i] \in DOMAIN session_state.lead_data =>
                \A j \in 1..(i - 1) : FieldOrder[j] \in DOMAIN session_state.lead_data

\* The answers have crossed from the qualify stage into the contact stage
W18_FirstFourAnswered ==
    /\ HasSession
    /\ DOMAIN session_state.lead_data = {"budget", "timeline", "interest_level", "name"}

Completed == HasSession /\ session_state.conversation_stage = "completed"

\* The answers accepted so far: the question_answered events of the log
AcceptedAnswers ==
    Cardinality({i \in 1..Len(session_state.analytics.interactions) :
        session_state.analytics.interactions[i].event_type = "question_answered"})

\* C19: from a fresh session, with the script re-run when asked and every
\* question in the end given a valid answer, and no Reset, the stage
\* becomes 'completed', and it does so after exactly six accepted answers.
C19_EventuallyCompleted ==
    /\ <>Completed
    /\ [](Completed => AcceptedAnswers = 6)

\* The conversation has just completed: six answers and one conversion
W19_CompletedAfterSixAnswers ==
    /\ Completed
    /\ AcceptedAnswers = 6
    /\ Len(session_state.analytics.interactions) = 7

\* The record is lead_data as it was when the record was appended (the
\* six fields never change once answered) with the category of its values
ScoreRecordFaithful(record) ==
    /\ QuestionFields \subseteq DOMAIN record
    /\ \A f \in QuestionFields : record[f] = session_state.lead_data[f]
    /\ "category" \in DOMAIN record
    /\ record.category = qualify_lead([f \in QualifyFields |-> record[f]])

\* C20: every record of lead_scores has the six required fields with the
\* values of lead_data, and the category qualify_lead gives those values.
C20_ScoreRecordsFaithful ==
    HasSession =>
        \A i \in 1..Len(session_state.analytics.lead_scores) :
            ScoreRecordFaithful(session_state.analytics.lead_scores[i])

\* A record of a lead that meets all three thresholds
W20_HotLeadRecorded ==
    /\ HasSession
    /\ Len(session_state.analytics.lead_scores) >= 1
    /\ session_state.analytics.lead_scores[1].category = "Hot"
    /\ session_state.analytics.lead_scores[1].budget = Txt_20000

====
